---- MODULE Spec2Model ----
(***************************************************************************)
(* Model of src/main.js: the portfolio page's gallery cards and the shared *)
(* lightbox modal (open/close lifecycle, close timer, animation frame,     *)
(* focus capture/restore and the Tab focus trap).                          *)
(*                                                                         *)
(* Strings that the code takes apart (paths) are sequences of one-char     *)
(* strings.  DOM elements are pairs <<name, index>>.                       *)
(***************************************************************************)
EXTENDS Integers, Sequences, FiniteSets, TLC

(***************************************************************************)
(* Bounds of the model.                                                    *)
(***************************************************************************)
\* how many flyers get a card (the first logo always gets one)
MaxFlyers == 1
\* how many close timers / animation-frame callbacks may be pending at once
MaxTimers == 2
MaxFrames == 1
\* how many times each gallery renderer may be called
MaxRenders == 2
\* the longest path given to the pure functions
MaxPathLen == 3

Range(s) == { s[i] : i \in 1..Len(s) }

(***************************************************************************)
(* Gallery data (main.js 50-110); a prefix of the flyers and the first     *)
(* logo get cards.                                                         *)
(***************************************************************************)
flyers ==
  << <<".", "/", "P", "u", "b", "l", "i", "c", "/", "A", "L", "L", " ", "F", "L", "Y", "E", "R", "S", "/", "A", "I", "S", "H", "A", "'", "S", "-", "B", "E", "A", "U", "T", "Y", "-", "E", "M", "P", "I", "R", "E", "-", "0", "2", ".", "p", "n", "g">>,
     <<".", "/", "P", "u", "b", "l", "i", "c", "/", "A", "L", "L", " ", "F", "L", "Y", "E", "R", "S", "/", "C", "R", "Y", "P", "T", "O", "-", "0", "2", ".", "p", "n", "g">>,
     <<".", "/", "P", "u", "b", "l", "i", "c", "/", "A", "L", "L", " ", "F", "L", "Y", "E", "R", "S", "/", "S", "O", "H", "N", "A", "-", "S", "P", "I", "R", "I", "T", "S", "-", "P", "O", "S", "T", "E", "R", "-", "0", "1", ".", "g", "i", "f">> >>

logos ==
  << <<".", "/", "P", "u", "b", "l", "i", "c", "/", "A", "L", "L", " ", "L", "O", "G", "O", "S", "/", "C", "l", "i", "i", "c", "k", " ", "L", "o", "g", "o", " ", "1", "@", "4", "x", ".", "p", "n", "g">>,
     <<".", "/", "P", "u", "b", "l", "i", "c", "/", "A", "L", "L", " ", "L", "O", "G", "O", "S", "/", "L", "O", "G", "O", "_", "7", ".", "p", "n", "g">>,
     <<".", "/", "P", "u", "b", "l", "i", "c", "/", "A", "L", "L", " ", "L", "O", "G", "O", "S", "/", "B", "O", "T", "L", "A", "X", " ", "0", "1", ".", "p", "n", "g">> >>

\* a gallery entry is <<collection, index>>; its card element is the same pair
Entries ==
  ({"flyers"} \X (1..MaxFlyers)) \cup {<<"logos", 1>>}

PathOf(e) == IF e[1] = "flyers" THEN flyers[e[2]] ELSE logos[e[2]]

(***************************************************************************)
(* String helpers: split('/'), join('/'), pop().                           *)
(***************************************************************************)
RECURSIVE Split(_, _)
Split(s, sep) ==
  LET at == { k \in 1..Len(s) : s[k] = sep }
  IN  IF at = {} THEN <<s>>
      ELSE LET i == CHOOSE k \in at : \A j \in at : k <= j
           IN  <<SubSeq(s, 1, i - 1)>> \o Split(SubSeq(s, i + 1, Len(s)), sep)

RECURSIVE Join(_, _)
Join(segs, sep) ==
  IF Len(segs) = 0 THEN <<>>
  ELSE IF Len(segs) = 1 THEN segs[1]
  ELSE segs[1] \o <<sep>> \o Join(Tail(segs), sep)

Pop(segs) == segs[Len(segs)]

(***************************************************************************)
(* encodeURIComponent: the unreserved characters stay, every other         *)
(* character becomes its percent escape.                                   *)
(***************************************************************************)
UriUnreserved ==
  { "A", "B", "C", "D", "E", "F", "G", "H", "I", "J", "K", "L", "M",
    "N", "O", "P", "Q", "R", "S", "T", "U", "V", "W", "X", "Y", "Z",
    "a", "b", "c", "d", "e", "f", "g", "h", "i", "j", "k", "l", "m",
    "n", "o", "p", "q", "r", "s", "t", "u", "v", "w", "x", "y", "z",
    "0", "1", "2", "3", "4", "5", "6", "7", "8", "9",
    "-", "_", ".", "!", "~", "*", "'", "(", ")" }

\* form-style escaping, which writes a space as '+'
PercentEscapePlus(c) ==
  IF c = " " THEN <<"+">>
  ELSE CASE c = "@" -> <<"%", "4", "0">>
         [] c = "%" -> <<"%", "2", "5">>
         [] c = "/" -> <<"%", "2", "F">>
         [] c = "#" -> <<"%", "2", "3">>
         [] c = "&" -> <<"%", "2", "6">>
         [] c = "+" -> <<"%", "2", "B">>
         [] c = "?" -> <<"%", "3", "F">>

PercentEscape(c) ==
  CASE c = " " -> <<"%", "2", "0">>
    [] c = "@" -> <<"%", "4", "0">>
    [] c = "%" -> <<"%", "2", "5">>
    [] c = "/" -> <<"%", "2", "F">>
    [] c = "#" -> <<"%", "2", "3">>
    [] c = "&" -> <<"%", "2", "6">>
    [] c = "+" -> <<"%", "2", "B">>
    [] c = "?" -> <<"%", "3", "F">>

RECURSIVE encodeURIComponent(_)
encodeURIComponent(s) ==
  IF Len(s) = 0 THEN <<>>
  ELSE (IF s[1] \in UriUnreserved THEN <<s[1]>> ELSE PercentEscape(s[1]))
       \o encodeURIComponent(Tail(s))

encodeSegment(segment) ==
  IF segment = <<>> \/ segment = <<".">> THEN segment
  ELSE encodeURIComponent(segment)

encodePath(path) ==
  LET segs == Split(path, "/")
  IN  Join([i \in 1..Len(segs) |-> encodeSegment(segs[i])], "/")

(***************************************************************************)
(* replace(/\.[^/.]+$/, ''): drop the last '.' and what follows it, when   *)
(* at least one character follows it.                                      *)
(***************************************************************************)
\* replace(/\.[^/.]*$/, ''): also strips a '.' that ends the name
stripExtensionGreedy(name) ==
  LET dots == { i \in 1..Len(name) : name[i] = "." }
  IN  IF dots = {} THEN name
      ELSE LET d == CHOOSE i \in dots : \A j \in dots : j <= i
           IN  IF \A j \in (d + 1)..Len(name) : name[j] # "/"
               THEN SubSeq(name, 1, d - 1)
               ELSE name

stripExtension(name) ==
  LET dots == { i \in 1..Len(name) : name[i] = "." }
  IN  IF dots = {} THEN name
      ELSE LET d == CHOOSE i \in dots : \A j \in dots : j <= i
           IN  IF d < Len(name) /\ \A j \in (d + 1)..Len(name) : name[j] # "/"
               THEN SubSeq(name, 1, d - 1)
               ELSE name

\* filename as generateGallery derives it
flyerFilename(flyerPath) == stripExtension(Pop(Split(flyerPath, "/")))

\* filename as generateLogoGallery derives it ('' is falsy: || 'logo')
logoFilename(logoPath) ==
  LET last == Pop(Split(logoPath, "/"))
      filenameWithExt == IF last = <<>> THEN <<"l", "o", "g", "o">> ELSE last
  IN  stripExtension(filenameWithExt)

FilenameOf(e) ==
  IF e[1] = "flyers" THEN flyerFilename(PathOf(e)) ELSE logoFilename(PathOf(e))

(***************************************************************************)
(* DOM elements (main.js 120-126) and the page around them.                *)
(***************************************************************************)
Null == <<"null", 0>>
Body == <<"body", 0>>
modalOverlay == <<"modal-overlay", 0>>
modalPanel == <<"modal-panel", 0>>
modalImage == <<"modal-image", 0>>
modalCloseBtn == <<"modal-close-btn", 0>>
modalDownloadBtn == <<"modal-download-btn", 0>>
galleryContainer == <<"gallery-container", 0>>
logoGalleryContainer == <<"logo-gallery-container", 0>>

\* a card that a later render removed from its container
Detached == <<"detached", 0>>

\* the elements openModal and closeModal use without a null test
RequiredModal == {modalOverlay, modalImage, modalCloseBtn, modalDownloadBtn}

\* the elements a click inside the overlay can have as its original target
ModalTargets ==
  {modalOverlay, modalPanel, modalImage, modalCloseBtn, modalDownloadBtn}

\* the cards, in document order (flyer gallery, then logo gallery)
Cards ==
  [i \in 1..MaxFlyers |-> <<"flyers", i>>] \o
  << <<"logos", 1>> >>

\* The overlay's descendants that match the selector of getFocusableElements,
\* in document order.  The markup is not part of the script, so the order
\* (and whether the download control matches at all) is chosen at start.
Layouts ==
  { <<modalCloseBtn, modalDownloadBtn>>,
    <<modalDownloadBtn, modalCloseBtn>>,
    <<modalCloseBtn>> }

VARIABLES
  modalFocusables,      \* document order of the overlay's focusable descendants
  isModalOpen,          \* main.js 132
  lastFocusedElement,   \* main.js 129
  activeElement,        \* document.activeElement
  overlayClasses,       \* modalOverlay.classList, of "hidden", "flex", "is-open"
  ariaHidden,           \* modalOverlay's aria-hidden attribute
  bodyOverflow,         \* document.body.style.overflow
  imageSrc,             \* modalImage.src
  imageAlt,             \* modalImage.alt
  downloadHref,         \* modalDownloadBtn.href
  downloadName,         \* modalDownloadBtn.download
  closeTimers,          \* pending setTimeout callbacks of closeModal
  frames,               \* pending requestAnimationFrame callbacks of openModal
  lastEvent,            \* the task the event loop ran last
  missing,              \* the elements getElementById did not find (null)
  threw,                \* the last task ended in an uncaught TypeError
  galleryCards,         \* the children of galleryContainer
  logoCards,            \* the children of logoGalleryContainer
  listeners,            \* the listeners setupEventListeners installed
  console,              \* the diagnostics logged so far
  renderCalls,          \* calls of generateGallery / generateLogoGallery
  pureIn,               \* the argument of a pure function under test
  pureOut               \* its result

vars ==
  <<modalFocusables, isModalOpen, lastFocusedElement, activeElement,
    overlayClasses, ariaHidden, bodyOverflow, imageSrc, imageAlt,
    downloadHref, downloadName, closeTimers, frames, lastEvent,
    missing, threw, galleryCards, logoCards, listeners, console,
    renderCalls, pureIn, pureOut>>

\* the page outside the modal, and the scratch pair of the pure functions
pageVars ==
  <<missing, galleryCards, logoCards, listeners, console, renderCalls,
    pureIn, pureOut>>

\* the cards now in the document, in document order
RenderedCards == galleryCards \o logoCards

\* what the modal controller owns: everything but focus and the event record
modalVars ==
  <<isModalOpen, lastFocusedElement, overlayClasses, ariaHidden, bodyOverflow,
    imageSrc, imageAlt, downloadHref, downloadName, closeTimers, frames>>

Event(type, target, key, shiftKey, defaultPrevented) ==
  [type |-> type, target |-> target, key |-> key, shiftKey |-> shiftKey,
   defaultPrevented |-> defaultPrevented]

(***************************************************************************)
(* Focus.  An element takes focus only while it is rendered: the cards in  *)
(* the document are, the modal's controls are while the overlay exists and *)
(* is not hidden.                                                          *)
(***************************************************************************)
CanFocus(el, classes) ==
  \/ el \in Range(RenderedCards)
  \/ /\ el \in Range(modalFocusables)
     /\ el \notin missing
     /\ modalOverlay \notin missing
     /\ "hidden" \notin classes

\* a focus() call that never takes effect
FocusStays(el, current, classes) == current

\* el.focus()
Focus(el, current, classes) == IF CanFocus(el, classes) THEN el ELSE current

\* the focused element stopped being rendered: focus falls back to the body
FocusFixup(current, classes) ==
  IF current = Body \/ CanFocus(current, classes)
  THEN current ELSE Body

getFocusableElements(container) ==
  IF container = Null \/ container \in missing THEN <<>>
  ELSE SelectSeq(modalFocusables,
                 LAMBDA el : el \notin missing /\ "hidden" \notin overlayClasses)

Preview == <<" ", "p", "r", "e", "v", "i", "e", "w">>

(***************************************************************************)
(* openModal (main.js 281-317); focused is document.activeElement at the   *)
(* call.                                                                   *)
(***************************************************************************)
\* a download attribute taken from the display name (extension stripped)
downloadFilenameStripped(imagePath, imageName) == imageName

\* imagePath.split('/').pop() || imageName (main.js 298)
downloadFilename(imagePath, imageName) ==
  LET last == Pop(Split(imagePath, "/"))
  IN  IF last = <<>> THEN imageName ELSE last

\* How far openModal gets: the first use of an element that is null throws a
\* TypeError and the statements after it do not run (5: it runs to its end).
openModalReach ==
  IF modalImage \in missing THEN 1
  ELSE IF modalDownloadBtn \in missing THEN 2
  ELSE IF modalOverlay \in missing THEN 3
  ELSE IF modalCloseBtn \in missing THEN 4
  ELSE 5

openModal(imagePath, imageName, focused) ==
  LET classes == (overlayClasses \ {"hidden"}) \cup {"flex"}
      encoded == encodePath(imagePath)
      reach == openModalReach
  IN  /\ lastFocusedElement' = focused
      /\ isModalOpen' = TRUE
      /\ IF reach > 1
         THEN /\ imageSrc' = encoded
              /\ imageAlt' = imageName \o Preview
         ELSE UNCHANGED <<imageSrc, imageAlt>>
      /\ IF reach > 2
         THEN /\ downloadHref' = encoded
              /\ downloadName' = downloadFilename(imagePath, imageName)
         ELSE UNCHANGED <<downloadHref, downloadName>>
      /\ IF reach > 3
         THEN /\ overlayClasses' = classes
              /\ ariaHidden' = "false"
              /\ frames' = frames + 1
              /\ bodyOverflow' = "hidden"
         ELSE UNCHANGED <<overlayClasses, ariaHidden, frames, bodyOverflow>>
      /\ activeElement' =
           (IF reach > 4 THEN Focus(modalCloseBtn, focused, classes)
            ELSE focused)
      /\ threw' = (reach < 5)
      /\ UNCHANGED <<closeTimers, modalFocusables>>

(***************************************************************************)
(* closeModal (main.js 323-347), up to scheduling the timer.               *)
(***************************************************************************)
closeModal(focused) ==
  /\ isModalOpen' = FALSE
  /\ IF modalOverlay \in missing
     THEN /\ threw' = TRUE
          /\ UNCHANGED <<overlayClasses, closeTimers>>
     ELSE /\ threw' = FALSE
          /\ overlayClasses' = overlayClasses \ {"is-open"}
          /\ closeTimers' = closeTimers + 1
  /\ activeElement' = focused
  /\ UNCHANGED <<lastFocusedElement, ariaHidden, bodyOverflow, imageSrc,
                 imageAlt, downloadHref, downloadName, frames,
                 modalFocusables>>

\* a callback that drops 'flex' but forgets to add 'hidden'
hideOverlayKeepsShown(classes) == classes \ {"flex"}

\* classList.add('hidden'); classList.remove('flex') (main.js 332-333)
hideOverlay(classes) == (classes \cup {"hidden"}) \ {"flex"}

(***************************************************************************)
(* The timer callback of closeModal (main.js 331-346).                     *)
(***************************************************************************)
CloseTimeout ==
  /\ closeTimers > 0
  /\ LET classes == hideOverlay(overlayClasses)
     IN  /\ overlayClasses' = classes
         /\ ariaHidden' = "true"
         /\ bodyOverflow' = ""
         /\ IF lastFocusedElement # Null
            THEN /\ activeElement' =
                      FocusFixup(Focus(lastFocusedElement, activeElement,
                                       classes), classes)
                 /\ lastFocusedElement' = Null
            ELSE /\ activeElement' = FocusFixup(activeElement, classes)
                 /\ UNCHANGED lastFocusedElement
  /\ closeTimers' = closeTimers - 1
  /\ lastEvent' = Event("timeout", Null, "", FALSE, FALSE)
  /\ threw' = FALSE
  /\ UNCHANGED <<isModalOpen, imageSrc, imageAlt, downloadHref, downloadName,
                 frames, modalFocusables, pageVars>>

(***************************************************************************)
(* The animation-frame callback of openModal (main.js 308-310).            *)
(***************************************************************************)
AnimationFrame ==
  /\ frames > 0
  /\ frames' = frames - 1
  /\ overlayClasses' = overlayClasses \cup {"is-open"}
  /\ lastEvent' = Event("frame", Null, "", FALSE, FALSE)
  /\ threw' = FALSE
  /\ UNCHANGED <<isModalOpen, lastFocusedElement, activeElement, ariaHidden,
                 bodyOverflow, imageSrc, imageAlt, downloadHref, downloadName,
                 closeTimers, modalFocusables, pageVars>>

(***************************************************************************)
(* Card activation (main.js 182-190 and 241-249).  A pointer click moves   *)
(* focus to the card (tabindex 0) before the listener runs; a tap or a     *)
(* dispatched click on a platform that does not focus on click leaves      *)
(* focus where it was.                                                     *)
(***************************************************************************)
CardClick(e, moveFocus) ==
  /\ e \in Range(RenderedCards)
  /\ frames < MaxFrames
  /\ openModal(PathOf(e), FilenameOf(e),
               IF moveFocus THEN e ELSE activeElement)
  /\ lastEvent' = Event("click", e, "", FALSE, FALSE)
  /\ UNCHANGED pageVars

CardKeydown(e, key) ==
  /\ activeElement = e
  /\ key \in {"Enter", " "}
  /\ frames < MaxFrames
  /\ openModal(PathOf(e), FilenameOf(e), activeElement)
  /\ lastEvent' = Event("keydown", e, key, FALSE, TRUE)
  /\ UNCHANGED pageVars

\* the close button's click listener (main.js 360-362) runs for clicks on it
closeBtnListenerCloses(target) == target = modalCloseBtn

\* an overlay listener that closes on every click that bubbles up to it
overlayListenerAnyTarget(target) == target \in ModalTargets

\* the overlay's click listener (main.js 399-405): e.target === modalOverlay
overlayListenerCloses(target) == target = modalOverlay

(***************************************************************************)
(* A click inside the displayed overlay (main.js 360-362 and 398-406): the *)
(* close button's listener and the overlay's listener both see it.         *)
(***************************************************************************)
ModalClick(target, moveFocus) ==
  /\ modalOverlay \notin missing
  /\ target \notin missing
  /\ "hidden" \notin overlayClasses
  /\ LET focused == IF ~moveFocus THEN activeElement
                    ELSE IF CanFocus(target, overlayClasses) THEN target
                    ELSE Body
     IN  IF \/ "close-click" \in listeners /\ closeBtnListenerCloses(target)
            \/ "overlay-click" \in listeners /\ overlayListenerCloses(target)
         THEN /\ closeTimers < MaxTimers
              /\ closeModal(focused)
         ELSE /\ activeElement' = focused
              /\ threw' = FALSE
              /\ UNCHANGED <<modalVars, modalFocusables>>
  /\ lastEvent' = Event("click", target, "", FALSE, FALSE)
  /\ UNCHANGED pageVars

\* an Escape branch without the isModalOpen test
escapeClosesAlways == TRUE

\* e.key === 'Escape' && isModalOpen (main.js 369), for an Escape keydown
escapeCloses == isModalOpen

(***************************************************************************)
(* The document's keydown listener, Escape branch (main.js 367-372).       *)
(***************************************************************************)
KeydownEscape ==
  /\ "document-keydown" \in listeners
  /\ IF escapeCloses
     THEN /\ closeTimers < MaxTimers
          /\ closeModal(activeElement)
     ELSE /\ threw' = FALSE
          /\ UNCHANGED <<modalVars, activeElement, modalFocusables>>
  /\ lastEvent' = Event("keydown", activeElement, "Escape", FALSE, FALSE)
  /\ UNCHANGED pageVars

(***************************************************************************)
(* The document's keydown listener, Tab branch (main.js 374-393), as the   *)
(* pair (was the default prevented, where is focus afterwards).            *)
(***************************************************************************)
\* a Tab branch that never wraps
trapTabNoWrap(shiftKey, current) == [prevented |-> FALSE, focus |-> current]

trapTab(shiftKey, current) ==
  LET pass == [prevented |-> FALSE, focus |-> current]
      focusables == getFocusableElements(modalOverlay)
  IN  IF ~isModalOpen \/ Len(focusables) = 0 THEN pass
      ELSE LET first == focusables[1]
               last == focusables[Len(focusables)]
               s1 == IF shiftKey /\ current = first
                     THEN [prevented |-> TRUE,
                           focus |-> Focus(last, current, overlayClasses)]
                     ELSE pass
           IN  IF ~shiftKey /\ s1.focus = last
               THEN [prevented |-> TRUE,
                     focus |-> Focus(first, s1.focus, overlayClasses)]
               ELSE s1

\* the page's sequential focus order: the cards, then the displayed controls
TabOrder == RenderedCards \o getFocusableElements(modalOverlay)

\* the browser's default Tab navigation; from the body (no focused element)
\* the starting point depends on where the user last clicked
DefaultTabTargets(shiftKey, current) ==
  IF current \in Range(TabOrder)
  THEN LET i == CHOOSE k \in 1..Len(TabOrder) : TabOrder[k] = current
           j == IF shiftKey THEN i - 1 ELSE i + 1
       IN  IF j \in 1..Len(TabOrder) THEN {TabOrder[j]} ELSE {Body}
  ELSE Range(TabOrder)

KeydownTab(shiftKey) ==
  LET r == IF "document-keydown" \in listeners
           THEN trapTab(shiftKey, activeElement)
           ELSE [prevented |-> FALSE, focus |-> activeElement]
  IN  /\ IF r.prevented
         THEN activeElement' = r.focus
         ELSE activeElement' \in DefaultTabTargets(shiftKey, r.focus)
      /\ lastEvent' = Event("keydown", activeElement, "Tab", shiftKey,
                            r.prevented)
      /\ threw' = FALSE
      /\ UNCHANGED <<modalVars, modalFocusables, pageVars>>

(***************************************************************************)
(* Gallery rendering (main.js 146-195 and 203-255).                        *)
(***************************************************************************)
\* a renderer without the null test on its container
containerAssumed(container) == TRUE

\* if (!galleryContainer) ... return (main.js 148, 205)
containerFound(container) == container \notin missing

\* a renderer that appends without clearing first
keepChildren(children) == children

\* container.innerHTML = '' (main.js 154, 211)
clearContainer(children) == <<>>

\* forEach ... appendChild(card): one card per entry, in collection order
appendCards(children, collection, n) ==
  children \o [i \in 1..n |-> <<collection, i>>]

GalleryError ==
  "error: Gallery container not found!"

LogoWarning ==
  "warn: Logo gallery container not found. Did you remove #logo-gallery-container?"

\* the children of galleryContainer after generateGallery
galleryAfter(children) ==
  IF containerFound(galleryContainer)
  THEN appendCards(clearContainer(children), "flyers", MaxFlyers)
  ELSE children

galleryLog ==
  IF containerFound(galleryContainer) THEN <<>> ELSE <<GalleryError>>

\* the children of logoGalleryContainer after generateLogoGallery
logoAfter(children) ==
  IF containerFound(logoGalleryContainer)
  THEN appendCards(clearContainer(children), "logos", 1)
  ELSE children

logoLog ==
  IF containerFound(logoGalleryContainer) THEN <<>> ELSE <<LogoWarning>>

\* a reference to an element after the children it may be among were replaced
AfterRemoval(el, removed, fallback) ==
  IF el \in Range(removed) THEN fallback ELSE el

Call(name) == Event(name, Null, "", FALSE, FALSE)

\* generateGallery called again (it is a global function)
GenerateGallery ==
  /\ renderCalls.flyers < MaxRenders
  /\ renderCalls' = [renderCalls EXCEPT !.flyers = @ + 1]
  /\ galleryCards' = galleryAfter(galleryCards)
  /\ console' = console \o galleryLog
  /\ LET removed == IF containerFound(galleryContainer)
                    THEN galleryCards ELSE <<>>
     IN  /\ activeElement' = AfterRemoval(activeElement, removed, Body)
         /\ lastFocusedElement' =
              AfterRemoval(lastFocusedElement, removed, Detached)
  /\ lastEvent' = Call("generateGallery")
  /\ threw' = FALSE
  /\ UNCHANGED <<modalFocusables, isModalOpen, overlayClasses, ariaHidden,
                 bodyOverflow, imageSrc, imageAlt, downloadHref, downloadName,
                 closeTimers, frames, missing, logoCards, listeners, pureIn,
                 pureOut>>

\* generateLogoGallery called again
GenerateLogoGallery ==
  /\ renderCalls.logos < MaxRenders
  /\ renderCalls' = [renderCalls EXCEPT !.logos = @ + 1]
  /\ logoCards' = logoAfter(logoCards)
  /\ console' = console \o logoLog
  /\ LET removed == IF containerFound(logoGalleryContainer)
                    THEN logoCards ELSE <<>>
     IN  /\ activeElement' = AfterRemoval(activeElement, removed, Body)
         /\ lastFocusedElement' =
              AfterRemoval(lastFocusedElement, removed, Detached)
  /\ lastEvent' = Call("generateLogoGallery")
  /\ threw' = FALSE
  /\ UNCHANGED <<modalFocusables, isModalOpen, overlayClasses, ariaHidden,
                 bodyOverflow, imageSrc, imageAlt, downloadHref, downloadName,
                 closeTimers, frames, missing, galleryCards, listeners, pureIn,
                 pureOut>>

(***************************************************************************)
(* setupEventListeners (main.js 357-407): which listeners get installed.   *)
(***************************************************************************)
setupEventListeners ==
  {"document-keydown"}
    \cup (IF modalCloseBtn \in missing THEN {} ELSE {"close-click"})
    \cup (IF modalOverlay \in missing THEN {} ELSE {"overlay-click"})

\* the console.log lines of init (main.js 429-431)
InitLog ==
  <<"log: Portfolio initialized successfully!",
    "log: Loaded flyer images.",
    "log: Loaded logo images.">>

(***************************************************************************)
(* init (main.js 418-432), run once when the document is ready.            *)
(***************************************************************************)
Bootstrap ==
  /\ "document-keydown" \notin listeners
  /\ renderCalls.flyers < MaxRenders
  /\ renderCalls.logos < MaxRenders
  /\ renderCalls' = [flyers |-> renderCalls.flyers + 1,
                     logos |-> renderCalls.logos + 1]
  /\ galleryCards' = galleryAfter(galleryCards)
  /\ logoCards' = logoAfter(logoCards)
  /\ console' = console \o galleryLog \o logoLog \o InitLog
  /\ listeners' = setupEventListeners
  /\ LET removed ==
           (IF containerFound(galleryContainer) THEN galleryCards ELSE <<>>)
           \o (IF containerFound(logoGalleryContainer) THEN logoCards
               ELSE <<>>)
     IN  /\ activeElement' = AfterRemoval(activeElement, removed, Body)
         /\ lastFocusedElement' =
              AfterRemoval(lastFocusedElement, removed, Detached)
  /\ lastEvent' = Call("DOMContentLoaded")
  /\ threw' = FALSE
  /\ UNCHANGED <<modalFocusables, isModalOpen, overlayClasses, ariaHidden,
                 bodyOverflow, imageSrc, imageAlt, downloadHref, downloadName,
                 closeTimers, frames, missing, pureIn, pureOut>>

NoResult == [fn |-> "none", value |-> <<>>]

\* the modal as the markup ships it, before any event
ModalAtRest ==
  /\ modalFocusables \in Layouts
  /\ isModalOpen = FALSE
  /\ lastFocusedElement = Null
  /\ activeElement = Body
  /\ overlayClasses = {"hidden"}
  /\ ariaHidden = "true"
  /\ bodyOverflow = ""
  /\ imageSrc = <<>>
  /\ imageAlt = <<>>
  /\ downloadHref = <<>>
  /\ downloadName = <<>>
  /\ closeTimers = 0
  /\ frames = 0
  /\ threw = FALSE

\* the page when the script has run but init() has not
PageLoaded(absent) ==
  /\ ModalAtRest
  /\ missing = absent
  /\ galleryCards = <<>>
  /\ logoCards = <<>>
  /\ listeners = {}
  /\ console = <<>>
  /\ renderCalls = [flyers |-> 0, logos |-> 0]
  /\ lastEvent = Call("load")

\* the page after init()
PageAfterInit(absent) ==
  /\ ModalAtRest
  /\ missing = absent
  /\ galleryCards = galleryAfter(<<>>)
  /\ logoCards = logoAfter(<<>>)
  /\ listeners = setupEventListeners
  /\ console = galleryLog \o logoLog \o InitLog
  /\ renderCalls = [flyers |-> 1, logos |-> 1]
  /\ lastEvent = Call("DOMContentLoaded")

(***************************************************************************)
(* The page after init() (main.js 418-432): cards rendered, listeners      *)
(* installed, the overlay hidden as the markup ships it.                   *)
(***************************************************************************)
Init ==
  /\ PageAfterInit({})
  /\ pureIn = <<>>
  /\ pureOut = NoResult

Next ==
  \/ \E e \in Entries, moveFocus \in BOOLEAN : CardClick(e, moveFocus)
  \/ \E e \in Entries, key \in {"Enter", " "} : CardKeydown(e, key)
  \/ \E target \in ModalTargets, moveFocus \in BOOLEAN :
       ModalClick(target, moveFocus)
  \/ KeydownEscape
  \/ \E shiftKey \in BOOLEAN : KeydownTab(shiftKey)
  \/ CloseTimeout
  \/ AnimationFrame

Spec == Init /\ [][Next]_vars

(***************************************************************************)
(* The same page when some of the elements the modal code looks up         *)
(* (main.js 122-126) are not in the document: the lookups gave null.       *)
(***************************************************************************)
InitMissing ==
  /\ \E absent \in (SUBSET RequiredModal) \ {{}} : PageAfterInit(absent)
  /\ pureIn = <<>>
  /\ pureOut = NoResult

SpecMissing == InitMissing /\ [][Next]_vars

(***************************************************************************)
(* The galleries: the page from the moment the script has run, with either *)
(* mount point possibly absent, init() and later calls of the renderers.   *)
(***************************************************************************)
InitGallery ==
  /\ \E absent \in SUBSET {galleryContainer, logoGalleryContainer} :
       PageLoaded(absent)
  /\ pureIn = <<>>
  /\ pureOut = NoResult

NextGallery ==
  \/ Bootstrap
  \/ GenerateGallery
  \/ GenerateLogoGallery
  \/ \E shiftKey \in BOOLEAN : KeydownTab(shiftKey)

SpecGallery == InitGallery /\ [][NextGallery]_vars

(***************************************************************************)
(* The pure functions on their own: encodePath (main.js 31-40) and the     *)
(* filename derivation of the two renderers (main.js 160, 218-219),        *)
(* applied to every short path over the characters that matter to them.    *)
(***************************************************************************)
PureChars == {"a", ".", "/", " ", "'", "@"}

PureInputs == UNION { [1..n -> PureChars] : n \in 0..MaxPathLen }

InitPure ==
  /\ PageAfterInit({})
  /\ pureIn \in PureInputs
  /\ pureOut = NoResult

Apply(fn, value) ==
  /\ pureOut' = [fn |-> fn, value |-> value]
  /\ lastEvent' = Call(fn)
  /\ threw' = FALSE
  /\ UNCHANGED <<modalFocusables, isModalOpen, lastFocusedElement,
                 activeElement, overlayClasses, ariaHidden, bodyOverflow,
                 imageSrc, imageAlt, downloadHref, downloadName, closeTimers,
                 frames, missing, galleryCards, logoCards, listeners, console,
                 renderCalls, pureIn>>

ApplyEncodePath == Apply("encodePath", encodePath(pureIn))

ApplyFlyerFilename == Apply("flyerFilename", flyerFilename(pureIn))

ApplyLogoFilename == Apply("logoFilename", logoFilename(pureIn))

NextPure ==
  \/ ApplyEncodePath
  \/ ApplyFlyerFilename
  \/ ApplyLogoFilename

SpecPure == InitPure /\ [][NextPure]_vars

(***************************************************************************)
(* Properties.  A step is recognised by what it leaves behind: the task    *)
(* recorded in lastEvent, a timer scheduled (closeModal ran) or a frame    *)
(* requested (openModal ran).                                              *)
(***************************************************************************)
TimeoutStep == lastEvent'.type = "timeout" /\ closeTimers' = closeTimers - 1

CloseStep == closeTimers' = closeTimers + 1

OpenStep(e) == frames' = frames + 1 /\ lastEvent'.target = e

\* C1: when a card is opened after close() and before the close delay has
\* elapsed, the callback of that close() does not take effect when the delay
\* elapses: the modal stays open on the image of the later open(), is not
\* hidden, scrolling stays locked and focus is not restored.
C1_ReopenSupersedesClose ==
  [][(TimeoutStep /\ isModalOpen) =>
       /\ isModalOpen'
       /\ imageSrc' = imageSrc
       /\ "hidden" \notin overlayClasses'
       /\ ariaHidden' = ariaHidden
       /\ bodyOverflow' = "hidden"
       /\ activeElement' = activeElement
       /\ lastFocusedElement' = lastFocusedElement]_vars

\* C2: at most one hide-and-restore callback is pending at any time (a
\* close() during the delay of an earlier close() schedules nothing).
C2_AtMostOnePendingClose == closeTimers <= 1

\* C3: when the close delay elapses with no open() since the close(), the
\* modal is hidden, aria-hidden is true, scrolling is unlocked, focus is back
\* on the return target if that is an element of the page that can take
\* focus, the return target is cleared and the modal is closed.
C3_CloseCompletes ==
  [][(TimeoutStep /\ ~isModalOpen) =>
       /\ "hidden" \in overlayClasses'
       /\ "flex" \notin overlayClasses'
       /\ ariaHidden' = "true"
       /\ bodyOverflow' = ""
       /\ (lastFocusedElement \in Range(Cards)
             => activeElement' = lastFocusedElement)
       /\ lastFocusedElement' = Null
       /\ ~isModalOpen']_vars

\* C3 witness: a close has completed and focus is back on a card
C3_Witness ==
  /\ lastEvent.type = "timeout"
  /\ ~isModalOpen
  /\ closeTimers = 0
  /\ "hidden" \in overlayClasses
  /\ lastFocusedElement = Null
  /\ activeElement \in Range(Cards)

\* C4: the return target is set while the modal is open or in its close
\* animation (a close pending, the overlay still displayed).
C4_TargetSetWhileOpen ==
  (isModalOpen \/ (closeTimers > 0 /\ "hidden" \notin overlayClasses))
    => lastFocusedElement # Null

\* C5: the return target, when set, is a gallery card, never an element of
\* the modal or another element.
C5_TargetIsCard ==
  lastFocusedElement # Null => lastFocusedElement \in Range(Cards)

\* C6: opening entry B while the modal is already open leaves it open on B
\* with focus on the close control, not back on the card captured earlier.
C6_ReopenWhileOpen ==
  [][\A e \in Entries :
       (isModalOpen /\ OpenStep(e)) =>
         /\ isModalOpen'
         /\ imageSrc' = encodePath(PathOf(e))
         /\ activeElement' = modalCloseBtn
         /\ (lastFocusedElement \in Range(Cards)
               => activeElement' # lastFocusedElement)]_vars

\* C6 witness: a card was activated while the modal was open with focus on
\* its close control (no close in between: none is pending, and a completed
\* one would have taken focus off the control)
C6_Witness ==
  /\ isModalOpen
  /\ closeTimers = 0
  /\ lastEvent.type = "click"
  /\ lastEvent.target \in Entries
  /\ lastFocusedElement = modalCloseBtn
  /\ imageSrc = encodePath(PathOf(lastEvent.target))
  /\ activeElement = modalCloseBtn

\* C7: Escape while the modal is closed changes nothing and schedules
\* nothing.
C7_EscapeWhileClosed ==
  [][(lastEvent'.key = "Escape" /\ ~isModalOpen /\ closeTimers = 0) =>
       UNCHANGED <<modalVars, activeElement, modalFocusables>>]_vars

\* C7 witness: Escape was the last key and the modal is closed, nothing
\* pending
C7_Witness ==
  /\ lastEvent.key = "Escape"
  /\ ~isModalOpen
  /\ closeTimers = 0
  /\ frames = 0
  /\ "hidden" \in overlayClasses

ClickOn(target) == lastEvent'.type = "click" /\ lastEvent'.target = target

\* C8 as claimed: closeModal runs exactly on a click on the close control, on
\* Escape while the modal is open or closing, and on a click whose target is
\* the overlay itself; a click on another descendant changes nothing of the
\* modal.
C8_DismissalTriggersAsClaimed ==
  [][/\ CloseStep <=>
          \/ ClickOn(modalCloseBtn)
          \/ ClickOn(modalOverlay)
          \/ lastEvent'.key = "Escape" /\ (isModalOpen \/ closeTimers > 0)
     /\ (\E t \in ModalTargets \ {modalCloseBtn, modalOverlay} : ClickOn(t))
          => UNCHANGED modalVars]_vars

\* C8 amended: closeModal runs exactly on a click on the close control, on
\* Escape while isModalOpen is true, and on a click whose target is the
\* overlay itself; a click on another descendant changes nothing of the
\* modal.
C8_DismissalTriggers ==
  [][/\ CloseStep <=>
          \/ ClickOn(modalCloseBtn)
          \/ ClickOn(modalOverlay)
          \/ lastEvent'.key = "Escape" /\ isModalOpen
     /\ (\E t \in ModalTargets \ {modalCloseBtn, modalOverlay} : ClickOn(t))
          => UNCHANGED modalVars]_vars

\* C8 witness: the image was clicked and the modal is still open, no close
\* scheduled
C8_Witness ==
  /\ lastEvent.type = "click"
  /\ lastEvent.target = modalImage
  /\ isModalOpen
  /\ closeTimers = 0
  /\ "hidden" \notin overlayClasses

\* C9: with the modal open, Tab on the last visible focusable moves focus to
\* the first and Shift+Tab on the first moves it to the last, the default
\* suppressed; with no visible focusable the handler suppresses nothing and changes
\* nothing.
C9_TabWraps ==
  [][(lastEvent'.key = "Tab" /\ isModalOpen) =>
       LET focusables == getFocusableElements(modalOverlay)
           n == Len(focusables)
       IN  IF n = 0
           THEN ~lastEvent'.defaultPrevented /\ UNCHANGED modalVars
           ELSE /\ (~lastEvent'.shiftKey /\ activeElement = focusables[n])
                     => /\ activeElement' = focusables[1]
                        /\ lastEvent'.defaultPrevented
                /\ (lastEvent'.shiftKey /\ activeElement = focusables[1])
                     => /\ activeElement' = focusables[n]
                        /\ lastEvent'.defaultPrevented]_vars

\* C9 witness: Tab on the last of two focusables wrapped to the first
C9_Witness ==
  /\ lastEvent.key = "Tab"
  /\ ~lastEvent.shiftKey
  /\ lastEvent.defaultPrevented
  /\ isModalOpen
  /\ Len(getFocusableElements(modalOverlay)) = 2
  /\ lastEvent.target = modalFocusables[2]
  /\ activeElement = modalFocusables[1]

\* C10: while the modal is open, after a Tab or Shift+Tab focus is on one of
\* the modal's visible focusable descendants.
C10_FocusConfined ==
  (isModalOpen /\ lastEvent.key = "Tab")
    => activeElement \in Range(getFocusableElements(modalOverlay))

(***************************************************************************)
(* C11: when an element the modal code requires (overlay, image, close     *)
(* button, download button) is absent, openModal and closeModal are        *)
(* no-ops: no call raises an exception and isModalOpen, lastFocusedElement *)
(* and the displayed image stay as they were.                              *)
(***************************************************************************)
C11_MissingElementNoOp ==
  [][(missing # {} /\ lastEvent'.type \in {"click", "keydown"})
       => /\ ~threw'
          /\ isModalOpen' = isModalOpen
          /\ lastFocusedElement' = lastFocusedElement
          /\ imageSrc' = imageSrc]_vars

\* the cards a collection renders to, one per entry, in collection order
CardsOf(collection) == SelectSeq(Cards, LAMBDA c : c[1] = collection)

(***************************************************************************)
(* C12: a renderer whose container is absent logs a diagnostic and does    *)
(* nothing else, raising nothing; init() then still renders the other      *)
(* gallery and installs the listeners.                                     *)
(***************************************************************************)
C12_MissingContainerDegrades ==
  [][/\ (lastEvent'.type = "generateGallery" /\ galleryContainer \in missing)
        => /\ console' = Append(console, GalleryError)
           /\ ~threw'
           /\ UNCHANGED <<galleryCards, logoCards, listeners, activeElement,
                         lastFocusedElement, modalVars>>
     /\ (lastEvent'.type = "generateLogoGallery"
           /\ logoGalleryContainer \in missing)
        => /\ console' = Append(console, LogoWarning)
           /\ ~threw'
           /\ UNCHANGED <<galleryCards, logoCards, listeners, activeElement,
                         lastFocusedElement, modalVars>>
     /\ (lastEvent'.type = "DOMContentLoaded" /\ galleryContainer \in missing)
        => /\ galleryCards' = galleryCards
           /\ \E i \in (Len(console) + 1)..Len(console') :
                console'[i] = GalleryError
           /\ ~threw'
           /\ logoGalleryContainer \notin missing
                => logoCards' = CardsOf("logos")
           /\ listeners' =
                {"document-keydown", "close-click", "overlay-click"}
     /\ (lastEvent'.type = "DOMContentLoaded"
           /\ logoGalleryContainer \in missing)
        => /\ logoCards' = logoCards
           /\ \E i \in (Len(console) + 1)..Len(console') :
                console'[i] = LogoWarning
           /\ ~threw'
           /\ galleryContainer \notin missing
                => galleryCards' = CardsOf("flyers")
           /\ listeners' =
                {"document-keydown", "close-click", "overlay-click"}]_vars

\* init() has run on a page without the flyer mount point
C12_Witness ==
  /\ lastEvent.type = "DOMContentLoaded"
  /\ galleryContainer \in missing
  /\ galleryCards = <<>>
  /\ logoCards = CardsOf("logos")
  /\ "document-keydown" \in listeners

(***************************************************************************)
(* C13: after a renderer has run at least once on its container, however   *)
(* often, the container holds exactly one card per entry of the            *)
(* collection, in collection order.                                        *)
(***************************************************************************)
C13_RenderIdempotent ==
  /\ (renderCalls.flyers >= 1 /\ galleryContainer \notin missing)
       => galleryCards = CardsOf("flyers")
  /\ (renderCalls.logos >= 1 /\ logoGalleryContainer \notin missing)
       => logoCards = CardsOf("logos")

\* both renderers have run a second time on their containers
C13_Witness ==
  /\ renderCalls.flyers >= 2
  /\ renderCalls.logos >= 2
  /\ missing = {}
  /\ Len(galleryCards) = Len(CardsOf("flyers"))
  /\ Len(logoCards) = Len(CardsOf("logos"))

(***************************************************************************)
(* C14: encodePath leaves empty segments and '.' segments as they are,     *)
(* keeps the number and order of the segments, and its output holds no     *)
(* raw space, apostrophe or '@'.                                           *)
(***************************************************************************)
C14_EncodeEscapes ==
  pureOut.fn = "encodePath"
    => LET segsIn == Split(pureIn, "/")
           segsOut == Split(pureOut.value, "/")
       IN  /\ Len(segsOut) = Len(segsIn)
           /\ \A i \in 1..Len(segsIn) :
                segsIn[i] \in {<<>>, <<".">>} => segsOut[i] = segsIn[i]
           /\ Range(pureOut.value) \cap {" ", "'", "@"} = {}

\* what a percent escape stands for (RFC 3986 section 2.1)
Unescape(hi, lo) ==
  CASE <<hi, lo>> = <<"2", "0">> -> " "
    [] <<hi, lo>> = <<"2", "3">> -> "#"
    [] <<hi, lo>> = <<"2", "5">> -> "%"
    [] <<hi, lo>> = <<"2", "6">> -> "&"
    [] <<hi, lo>> = <<"2", "7">> -> "'"
    [] <<hi, lo>> = <<"2", "B">> -> "+"
    [] <<hi, lo>> = <<"2", "F">> -> "/"
    [] <<hi, lo>> = <<"3", "F">> -> "?"
    [] <<hi, lo>> = <<"4", "0">> -> "@"

RECURSIVE percentDecode(_)
percentDecode(s) ==
  IF Len(s) = 0 THEN <<>>
  ELSE IF s[1] = "%" /\ Len(s) >= 3
       THEN <<Unescape(s[2], s[3])>> \o percentDecode(SubSeq(s, 4, Len(s)))
       ELSE <<s[1]>> \o percentDecode(Tail(s))

(***************************************************************************)
(* C15: percent-decoding encodePath(p) gives p back, for every path p of   *)
(* unreserved characters, '/', space, apostrophe and '@'; the empty path   *)
(* encodes to the empty path.                                              *)
(***************************************************************************)
C15_EncodeRoundTrip ==
  pureOut.fn = "encodePath"
    => /\ percentDecode(pureOut.value) = pureIn
       /\ pureIn = <<>> => pureOut.value = <<>>

\* a path with a separator and a space has been encoded
C15_Witness ==
  /\ pureOut.fn = "encodePath"
  /\ {"/", " "} \subseteq Range(pureIn)
  /\ pureOut.value # pureIn

\* the final '/'-separated segment of a path
FinalSegment(path) == Pop(Split(path, "/"))

\* r is seg without its final '.' and the characters after it
CutAtFinalDot(seg, r) ==
  \E d \in 1..Len(seg) :
    /\ seg[d] = "."
    /\ \A j \in (d + 1)..Len(seg) : seg[j] # "."
    /\ r = SubSeq(seg, 1, d - 1)

\* the filename the claim gives for a final segment
ClaimedFilename(seg, r) ==
  IF \/ "." \notin Range(seg)
     \/ seg[Len(seg)] = "."
     \/ (seg[1] = "." /\ "." \notin Range(Tail(seg)))
  THEN r = seg
  ELSE CutAtFinalDot(seg, r)

DerivedFilename(seg, r) ==
  IF "." \notin Range(seg) \/ seg[Len(seg)] = "."
  THEN r = seg
  ELSE CutAtFinalDot(seg, r)

EncodedFlyers ==
  <<encodePath(flyers[1]), encodePath(flyers[2]), encodePath(flyers[3])>>

EncodedLogos ==
  <<encodePath(logos[1]), encodePath(logos[2]), encodePath(logos[3])>>

FinalSegmentFlyers ==
  <<FinalSegment(flyers[1]), FinalSegment(flyers[2]), FinalSegment(flyers[3])>>

FinalSegmentLogos ==
  <<FinalSegment(logos[1]), FinalSegment(logos[2]), FinalSegment(logos[3])>>

EncodedPathOf(e) ==
  IF e[1] = "flyers" THEN EncodedFlyers[e[2]] ELSE EncodedLogos[e[2]]

FinalSegmentOf(e) ==
  IF e[1] = "flyers" THEN FinalSegmentFlyers[e[2]] ELSE FinalSegmentLogos[e[2]]

(***************************************************************************)
(* C17: activating the card of entry e opens the modal on e: the image     *)
(* address and the download address become encodePath of e's path and the  *)
(* download filename e's final path segment with its extension; no other   *)
(* step changes them, so they always belong to the entry opened last.      *)
(***************************************************************************)
C17_ModalShowsLastOpened ==
  [][/\ \A e \in Entries :
          OpenStep(e) =>
            /\ isModalOpen'
            /\ "hidden" \notin overlayClasses'
            /\ imageSrc' = EncodedPathOf(e)
            /\ downloadHref' = EncodedPathOf(e)
            /\ downloadName' = FinalSegmentOf(e)
     /\ frames' # frames + 1
          => UNCHANGED <<imageSrc, downloadHref, downloadName>>]_vars

\* the logo's card was activated from the keyboard after an earlier close,
\* and its image is the one on display
C17_Witness ==
  /\ lastEvent.type = "keydown"
  /\ lastEvent.key \in {"Enter", " "}
  /\ lastEvent.target = <<"logos", 1>>
  /\ closeTimers > 0
  /\ isModalOpen
  /\ imageSrc = EncodedPathOf(<<"logos", 1>>)
  /\ downloadHref = imageSrc
  /\ downloadName = FinalSegmentOf(<<"logos", 1>>)

(***************************************************************************)
(* C18: whenever isModalOpen is true the overlay is not hidden, its        *)
(* aria-hidden is false and page scrolling is locked.                      *)
(***************************************************************************)
C18_OpenMeansShown ==
  isModalOpen =>
    /\ "hidden" \notin overlayClasses
    /\ ariaHidden = "false"
    /\ bodyOverflow = "hidden"

(***************************************************************************)
(* C19: when the modal is closed and no close timer and no animation-frame *)
(* callback is pending, the overlay does not carry the is-open class.      *)
(***************************************************************************)
C19_ClosedNotIsOpen ==
  (~isModalOpen /\ closeTimers = 0 /\ frames = 0)
    => "is-open" \notin overlayClasses

====
